---------------------------- MODULE Spec2Model ----------------------------
(***************************************************************************)
(* A model of src/brainfuck.py: the Tape class (a growable byte array with *)
(* a cursor) and BfTuringMachine (two tapes, a bracket stack, the eight    *)
(* instruction handlers, load_program and the dispatch loop start_program).*)
(*                                                                         *)
(* Positions and cursors count from 0, as in the source.  Source text is a *)
(* sequence of one-character strings; bytes and code points are integers.  *)
(***************************************************************************)
EXTENDS Integers, Sequences, FiniteSets, TLC

VARIABLES
    memory,           \* BfTuringMachine._memory : Tape
    program,          \* BfTuringMachine._program : Tape
    bracket_stack,    \* BfTuringMachine._bracket_stack
    nested_brackets,  \* the local of _left_bracket's forward scan
    pc,               \* where main / start_program / _left_bracket stands
    exc,              \* the exception that ended the run, or NoExc
    ir,               \* program position of the instruction last dispatched
    source,           \* the text handed to load_program
    stdin,            \* the content of sys.stdin: characters as code points
    stdin_pos,        \* how many characters of stdin have been read
    stdout,           \* bytes written to sys.stdout.buffer, in order
    tape,             \* a Tape driven on its own, through its methods
    tape_origin,      \* "constructed" or "loaded": how tape got its storage
    tape_data,        \* the data of the last load of tape
    tape_written,     \* a cur_elem write since tape was constructed/loaded
    tape_exc          \* what the last method call on tape raised, or NoExc

machine == <<memory, program, bracket_stack, nested_brackets, pc, exc, ir,
             source, stdin, stdin_pos, stdout>>

harness == <<tape, tape_origin, tape_data, tape_written, tape_exc>>

vars == <<machine, harness>>

----------------------------------------------------------------------------
(* Bounds of the model *)

\* longest source text enumerated exhaustively
MaxSrcLen == 3
\* most characters waiting on stdin for an enumerated source text
MaxInput == 1
\* cursors are not moved past this position (a run that would is cut there)
MaxPtr == 16
\* most bytes written to stdout (a run that would write more is cut there)
MaxOut == 256
\* the cursor of the tape driven on its own is not moved past this position
MaxTapePtr == 3
\* longest data loaded into the tape driven on its own
MaxDataLen == 2

----------------------------------------------------------------------------
(* Characters and bytes *)

Byte == 256

NUL == 0

\* the keys of BfTuringMachine._bf_cmds
bf_cmds == {">", "<", "+", "-", ".", ",", "[", "]"}

\* characters the enumerated source texts are drawn from: the commands and
\* one character that is not a command
Alphabet == bf_cmds \cup {"x"}

\* ord with the zero byte as the code of a command
ord_dot_nul(c) ==
    CASE c = ">" -> 62
      [] c = "<" -> 60
      [] c = "+" -> 43
      [] c = "-" -> 45
      [] c = "." -> 0
      [] c = "," -> 44
      [] c = "[" -> 91
      [] c = "]" -> 93

\* Python's ord() on the command characters
ord(c) ==
    CASE c = ">" -> 62
      [] c = "<" -> 60
      [] c = "+" -> 43
      [] c = "-" -> 45
      [] c = "." -> 46
      [] c = "," -> 44
      [] c = "[" -> 91
      [] c = "]" -> 93

----------------------------------------------------------------------------
(* bytearray.  A bytearray is held as its length and its nonzero bytes:     *)
(* [len |-> n, nz |-> f], f a function from the positions (from 0) that    *)
(* hold a nonzero byte to that byte; every other position below len holds  *)
(* 0.  Two bytearrays are equal exactly when their records are.            *)

\* bytearray(n): n zero bytes
bytearray(n) == [len |-> n, nz |-> << >>]

\* bytearray(data), data a sequence of bytes
bytearray_of(data) ==
    [len |-> Len(data),
     nz  |-> [i \in {k - 1 : k \in {j \in DOMAIN data : data[j] # 0}}
                 |-> data[i + 1]]]

\* b[i], for 0 <= i < len(b)
getitem(b, i) == IF i \in DOMAIN b.nz THEN b.nz[i] ELSE 0

\* b[i] = v, for 0 <= i < len(b) and v a byte
setitem(b, i, v) ==
    [len |-> b.len,
     nz  |-> [j \in (IF v = 0 THEN DOMAIN b.nz \ {i}
                              ELSE DOMAIN b.nz \cup {i})
                 |-> IF j = i THEN v ELSE b.nz[j]]]

\* b.extend(c)
extend(b, c) ==
    [len |-> b.len + c.len,
     nz  |-> [j \in DOMAIN b.nz \cup {k + b.len : k \in DOMAIN c.nz}
                 |-> IF j \in DOMAIN b.nz THEN b.nz[j] ELSE c.nz[j - b.len]]]

----------------------------------------------------------------------------
(* class Tape *)

initial_tape_len == 4096

\* Tape.__init__
Tape(len) == [storage |-> bytearray(len), ptr |-> 0]

\* extend_storage growing to just ptr + 1 bytes, without doubling
extend_storage_exact(storage, ptr) ==
    IF storage.len <= ptr
    THEN extend(storage, bytearray(ptr + 1 - storage.len))
    ELSE storage

\* extend_storage with the loop test len < ptr: no growth when ptr = len
RECURSIVE extend_storage_late(_, _)
extend_storage_late(storage, ptr) ==
    IF storage.len < ptr
    THEN extend_storage_late(extend(storage, bytearray(storage.len + 1)),
                             ptr)
    ELSE storage

\* extend_storage adding bytes that are not zero
RECURSIVE extend_storage_dirty(_, _)
extend_storage_dirty(storage, ptr) ==
    IF storage.len <= ptr
    THEN extend_storage_dirty(
             extend(storage, bytearray_of([i \in 1..(storage.len + 1) |-> 1])),
             ptr)
    ELSE storage

\* the while loop of the ptr setter: extend by len + 1 zero bytes until
\* ptr is an index
RECURSIVE extend_storage(_, _)
extend_storage(storage, ptr) ==
    IF storage.len <= ptr
    THEN extend_storage(extend(storage, bytearray(storage.len + 1)), ptr)
    ELSE storage

\* ptr_raises letting -1 through
ptr_raises_lax(n) == n < -1

\* the ptr setter's guard: it raises IndexError and changes nothing
ptr_raises(n) == n < 0

\* the ptr setter, when it does not raise
ptr_set(t, n) == [storage |-> extend_storage(t.storage, n), ptr |-> n]

\* the cur_elem getter
cur_elem(t) == getitem(t.storage, t.ptr)

\* cur_elem_set without the byte wrapping
cur_elem_set_nowrap(t, elem) ==
    [t EXCEPT !.storage = setitem(@, t.ptr, elem)]

\* the cur_elem setter
cur_elem_set(t, elem) ==
    [t EXCEPT !.storage = setitem(@, t.ptr, elem % Byte)]

\* Tape.load
load(t, data) == ptr_set([storage |-> bytearray_of(data), ptr |-> t.ptr], 0)

\* next consuming the byte it returns: the element is zeroed behind it
next_consuming(t) == ptr_set(cur_elem_set(t, 0), t.ptr + 1)

\* Tape.__next__: the tape after the step (the value returned is the
\* cur_elem of the tape before it)
next(t) == ptr_set(t, t.ptr + 1)

----------------------------------------------------------------------------
(* class BfTuringMachine: helpers *)

NoExc == [type |-> "", msg |-> ""]

IndexError == [type |-> "IndexError", msg |-> "Tried to set tape pointer < 0"]

UnmatchedLeft == [type |-> "BrainfuckSyntaxError", msg |-> "Unmatched ["]

UnmatchedRight == [type |-> "BrainfuckSyntaxError", msg |-> "Unmatched ]"]

\* to_load appending at the wrong end
RECURSIVE to_load_reversed(_)
to_load_reversed(text) ==
    IF text = << >> THEN << >>
    ELSE LET rest == to_load_reversed(Tail(text))
         IN  IF Head(text) \notin bf_cmds THEN rest
             ELSE rest \o <<ord(Head(text))>>

\* the loop of load_program: to_load after the characters of text
RECURSIVE to_load(_)
to_load(text) ==
    IF text = << >> THEN << >>
    ELSE LET rest == to_load(Tail(text))
         IN  IF Head(text) \notin bf_cmds THEN rest
             ELSE <<ord(Head(text))>> \o rest

\* load_program: the program tape after it
load_program(prog, text) == load(prog, to_load(text))

----------------------------------------------------------------------------
(* The runs explored: a source text and the characters waiting on stdin    *)

\* every text of at most MaxSrcLen characters of Alphabet
Texts == UNION {[1..n -> Alphabet] : n \in 0..MaxSrcLen}

\* code points a character read from stdin may have in the enumerated
\* runs; 300 is a character beyond one byte
InputChars == {0, 2, 255, 300}

InputsUpTo(n) == UNION {[1..k -> InputChars] : k \in 0..n}

\* the inputs a text is run on: a text without ',' never reads stdin
InputsFor(text) ==
    IF \E k \in 1..Len(text) : text[k] = ","
    THEN InputsUpTo(MaxInput)
    ELSE {<< >>}

\* longer programs: the scenarios of the documentation and programs with
\* nested, sibling and unmatched loops
Programs ==
    { <<"+", "+", ".">>,
      <<"[", "[", "]", "]">>,
      <<"[", "[", "]", "]", "+", ".">>,
      <<"[", "+", "[", "-", "]", "x", "]", "+", ".">>,
      <<"[", "[", "]", "[", "]", "]", "-", ".">>,
      <<"+", "[", "[", "-", "]", "]">>,
      <<"+", "+", "[", "[", "-", "]", "+", "[", "-", "]", "]", ".">>,
      <<"+", "+", "[", ">", "+", "[", "-", "]", "<", "-", "]">>,
      <<"+", "[", "[", "]", "]">>,
      <<"+", "[", ">", "+", "]">>,
      <<"-", "[", "-", "]">>,
      <<"+", "[", ".", "]">>,
      <<"+", "[", "[", "-", "]">>,
      <<"[", "[", "]", "+">>,
      <<"+", "[", "-", "]", "]", "+">>,
      <<"x", "+", " ", "[", "\n", "-", "]", "#", ".">>,
      <<",", "+", "+", "+">>,
      <<",", ".", ",", ".">>,
      <<"+", ".", "+", ".", "]", ".">>,
      <<".", "-", ".", "<", ".">> }

\* the cell copy loop of the documentation, run on every byte
Copy == <<",", "[", ".", "-", "]">>

\* the run chosen: a text and the characters waiting on stdin
RunChosen ==
    \/ \E s \in Texts \cup Programs :
          \E i \in InputsFor(s) : source = s /\ stdin = i
    \/ \E k \in 0..255 : source = Copy /\ stdin = <<k>>

----------------------------------------------------------------------------
(* The state after construction: BfTuringMachine.__init__, with the text of *)
(* the program file and the content of stdin chosen                        *)

Constructed ==
    /\ memory = Tape(initial_tape_len)
    /\ program = Tape(initial_tape_len)
    /\ bracket_stack = << >>
    /\ nested_brackets = 0
    /\ pc = "constructed"
    /\ exc = NoExc
    /\ ir = -1
    /\ stdin_pos = 0
    /\ stdout = << >>

\* Tape(len) on its own
TapeConstructed(lens) ==
    /\ \E len \in lens : tape = Tape(len)
    /\ tape_origin = "constructed"
    /\ tape_data = << >>
    /\ tape_written = FALSE
    /\ tape_exc = NoExc

\* the machine's runs; the tape driven on its own stays as constructed
Init == RunChosen /\ Constructed /\ TapeConstructed({initial_tape_len})

----------------------------------------------------------------------------
(* main: load_program, then start_program *)

LoadProgram ==
    /\ UNCHANGED harness
    /\ pc = "constructed"
    /\ program' = load_program(program, source)
    /\ pc' = "fetch"
    /\ UNCHANGED <<memory, bracket_stack, nested_brackets, exc, ir, source,
                   stdin, stdin_pos, stdout>>

\* Halt reporting a [ left open on the stack at the end of the program
Halt_reporting ==
    /\ UNCHANGED harness
    /\ pc = "fetch"
    /\ cur_elem(program) = NUL
    /\ IF bracket_stack = << >>
       THEN pc' = "halted" /\ exc' = exc
       ELSE pc' = "raised" /\ exc' = UnmatchedLeft
    /\ UNCHANGED <<memory, program, bracket_stack, nested_brackets, ir,
                   source, stdin, stdin_pos, stdout>>

\* start_program's loop test finds the zero byte: the run ends normally
Halt ==
    /\ UNCHANGED harness
    /\ pc = "fetch"
    /\ cur_elem(program) = NUL
    /\ pc' = "halted"
    /\ UNCHANGED <<memory, program, bracket_stack, nested_brackets, exc, ir,
                   source, stdin, stdin_pos, stdout>>

\* start_program is about to call the handler of command c
Dispatching(c) == pc = "fetch" /\ cur_elem(program) = ord(c)

\* the handler returned: start_program goes on to its ptr += 1
Returned == pc' = "advance" /\ ir' = program.ptr /\ exc' = exc

\* the handler raised e: the exception leaves start_program
Raised(e) == pc' = "raised" /\ ir' = program.ptr /\ exc' = e

\* _shift_data_ptr(n): the data cursor it asks for
shift_data_ptr(n) == memory.ptr + n

\* '>'
ShiftRight ==
    /\ UNCHANGED harness
    /\ Dispatching(">")
    /\ memory.ptr < MaxPtr
    /\ memory' = ptr_set(memory, shift_data_ptr(1))
    /\ Returned
    /\ UNCHANGED <<program, bracket_stack, nested_brackets, source, stdin,
                   stdin_pos, stdout>>

\* '<'
ShiftLeft ==
    /\ UNCHANGED harness
    /\ Dispatching("<")
    /\ IF ptr_raises(shift_data_ptr(-1))
       THEN Raised(IndexError) /\ memory' = memory
       ELSE Returned /\ memory' = ptr_set(memory, shift_data_ptr(-1))
    /\ UNCHANGED <<program, bracket_stack, nested_brackets, source, stdin,
                   stdin_pos, stdout>>

\* _add_to_current_byte(n): the memory tape after it
add_to_current_byte(n) == cur_elem_set(memory, cur_elem(memory) + n)

\* '+'
Increment ==
    /\ UNCHANGED harness
    /\ Dispatching("+")
    /\ memory' = add_to_current_byte(1)
    /\ Returned
    /\ UNCHANGED <<program, bracket_stack, nested_brackets, source, stdin,
                   stdin_pos, stdout>>

\* '-'
Decrement ==
    /\ UNCHANGED harness
    /\ Dispatching("-")
    /\ memory' = add_to_current_byte(-1)
    /\ Returned
    /\ UNCHANGED <<program, bracket_stack, nested_brackets, source, stdin,
                   stdin_pos, stdout>>

\* current_byte_out with the write left in a buffer that is never flushed
current_byte_out_unflushed == stdout

\* current_byte_out writing the byte before subtracting, as if - came first
current_byte_out_late == Append(stdout, (cur_elem(memory) - 1) % Byte)

\* _current_byte_out: stdout after the write and the flush
current_byte_out == Append(stdout, cur_elem(memory))

\* '.'
CurrentByteOut ==
    /\ UNCHANGED harness
    /\ Dispatching(".")
    /\ Len(stdout) < MaxOut
    /\ stdout' = current_byte_out
    /\ Returned
    /\ UNCHANGED <<memory, program, bracket_stack, nested_brackets, source,
                   stdin, stdin_pos>>

\* read_byte_and_store leaving the cell alone at end of data
read_byte_and_store_keep(char) ==
    IF Len(char) # 0
    THEN cur_elem_set(memory, char[1])
    ELSE memory

\* _read_byte_and_store: the memory tape after it; char is what
\* sys.stdin.read(1) returned, a sequence of at most one code point
read_byte_and_store(char) ==
    IF Len(char) # 0
    THEN cur_elem_set(memory, char[1])
    ELSE cur_elem_set(memory, 0)

\* sys.stdin.read(1): one character, or the empty string at end of data
stdin_read1 ==
    IF stdin_pos < Len(stdin) THEN <<stdin[stdin_pos + 1]>> ELSE << >>

\* ','
ReadByteAndStore ==
    /\ UNCHANGED harness
    /\ Dispatching(",")
    /\ memory' = read_byte_and_store(stdin_read1)
    /\ stdin_pos' = stdin_pos + Len(stdin_read1)
    /\ Returned
    /\ UNCHANGED <<program, bracket_stack, nested_brackets, source, stdin,
                   stdout>>

\* '[' with a nonzero cell: the position is pushed and the handler returns
LeftBracketEnter ==
    /\ UNCHANGED harness
    /\ Dispatching("[")
    /\ cur_elem(memory) # 0
    /\ bracket_stack' = Append(bracket_stack, program.ptr)
    /\ Returned
    /\ UNCHANGED <<memory, program, nested_brackets, source, stdin, stdin_pos, stdout>>

\* pushed_and_popped with the pop forgotten
pushed_not_popped == Append(bracket_stack, program.ptr)

\* the stack of a [ that skips its loop: append (line 88), then pop (line 92)
pushed_and_popped ==
    SubSeq(Append(bracket_stack, program.ptr), 1, Len(bracket_stack))

\* '[' with a zero cell: the position is pushed and popped again, the
\* counter starts at 0 and next() steps over the [ itself
LeftBracketSkip ==
    /\ UNCHANGED harness
    /\ Dispatching("[")
    /\ cur_elem(memory) = 0
    /\ bracket_stack' = pushed_and_popped
    /\ nested_brackets' = 0
    /\ program' = next(program)
    /\ pc' = "scan"
    /\ ir' = program.ptr
    /\ UNCHANGED <<memory, exc, source, stdin, stdin_pos, stdout>>

\* scan_case with the nesting counter ignored
scan_case_flat(cmd, nested) ==
    IF cmd \notin {ord("["), ord("]")} THEN "pass"
    ELSE IF cmd = ord("[") THEN "open"
    ELSE "found"

\* what one pass of _left_bracket's for loop does with the byte cmd it got
\* from next(): "pass" (not a bracket), "open", "close" (a nested loop's ])
\* or "found" (the matching ])
scan_case(cmd, nested) ==
    IF cmd \notin {ord("["), ord("]")} THEN "pass"
    ELSE IF cmd = ord("[") THEN "open"
    ELSE IF nested # 0 THEN "close"
    ELSE "found"

\* one pass of the for loop of _left_bracket.  Tape.__next__ never ends the
\* iteration, so the loop is left only through "found"
ScanStep ==
    /\ UNCHANGED harness
    /\ pc = "scan"
    /\ program.ptr < MaxPtr
    /\ LET kind == scan_case(cur_elem(program), nested_brackets)
           stepped == next(program)
       IN  /\ nested_brackets' =
                 CASE kind = "open" -> nested_brackets + 1
                   [] kind = "close" -> nested_brackets - 1
                   [] kind = "found" -> 0
                   [] OTHER -> nested_brackets
           /\ program' = IF kind = "found"
                         THEN ptr_set(stepped, stepped.ptr - 1)
                         ELSE stepped
           /\ pc' = IF kind = "found" THEN "advance" ELSE "scan"
    /\ UNCHANGED <<memory, bracket_stack, exc, ir, source, stdin, stdin_pos, stdout>>

\* right_bracket_case testing the cell before the stack
right_bracket_case_cell_first ==
    IF cur_elem(memory) = 0 THEN "pop"
    ELSE IF bracket_stack = << >> THEN "raise"
    ELSE "jump"

\* _right_bracket: "raise", "pop" or "jump"
right_bracket_case ==
    IF bracket_stack = << >> THEN "raise"
    ELSE IF cur_elem(memory) = 0 THEN "pop"
    ELSE "jump"

\* jump_target landing one before the [, so that the advance of
\* start_program would bring the cursor onto the [ itself
jump_target_before == bracket_stack[Len(bracket_stack)] - 1

\* jump_target taking the bottom of the stack
jump_target_bottom == bracket_stack[1]

\* the cursor _right_bracket jumps to: bracket_stack[-1]
jump_target == bracket_stack[Len(bracket_stack)]

\* ']'
RightBracket ==
    /\ UNCHANGED harness
    /\ Dispatching("]")
    /\ CASE right_bracket_case = "raise" ->
              /\ Raised(UnmatchedRight)
              /\ UNCHANGED <<program, bracket_stack>>
         [] right_bracket_case = "pop" ->
              /\ bracket_stack' = SubSeq(bracket_stack, 1,
                                         Len(bracket_stack) - 1)
              /\ Returned
              /\ UNCHANGED program
         [] right_bracket_case = "jump" ->
              /\ program' = ptr_set(program, jump_target)
              /\ Returned
              /\ UNCHANGED bracket_stack
    /\ UNCHANGED <<memory, nested_brackets, source, stdin, stdin_pos, stdout>>

\* start_program's self._program.ptr += 1
Advance ==
    /\ UNCHANGED harness
    /\ pc = "advance"
    /\ program' = ptr_set(program, program.ptr + 1)
    /\ pc' = "fetch"
    /\ UNCHANGED <<memory, bracket_stack, nested_brackets, exc, ir, source,
                   stdin, stdin_pos, stdout>>

----------------------------------------------------------------------------
(* A Tape driven on its own: load, the ptr setter, the cur_elem setter and  *)
(* __next__ called in any order with arguments from small sets             *)

\* byte sequences handed to Tape.load
TapeData == UNION {[1..n -> {0, 7}] : n \in 0..MaxDataLen}

\* integers handed to the cur_elem setter
TapeElems == {-1, 256}

TapeLoad ==
    /\ \E data \in TapeData :
          /\ tape' = load(tape, data)
          /\ tape_data' = data
    /\ tape_origin' = "loaded"
    /\ tape_written' = FALSE
    /\ tape_exc' = NoExc
    /\ UNCHANGED machine

TapeSetPtr ==
    /\ \E n \in -1..MaxTapePtr :
          IF ptr_raises(n)
          THEN tape' = tape /\ tape_exc' = IndexError
          ELSE tape' = ptr_set(tape, n) /\ tape_exc' = NoExc
    /\ UNCHANGED <<tape_origin, tape_data, tape_written, machine>>

TapeSetCurElem ==
    /\ \E elem \in TapeElems : tape' = cur_elem_set(tape, elem)
    /\ tape_written' = TRUE
    /\ tape_exc' = NoExc
    /\ UNCHANGED <<tape_origin, tape_data, machine>>

TapeNext ==
    /\ tape.ptr < MaxTapePtr
    /\ tape' = next(tape)
    /\ tape_exc' = NoExc
    /\ UNCHANGED <<tape_origin, tape_data, tape_written, machine>>

InitTape ==
    /\ source = << >> /\ stdin = << >>
    /\ Constructed
    /\ TapeConstructed({1, 2, initial_tape_len})

NextTape ==
    \/ TapeLoad
    \/ TapeSetPtr
    \/ TapeSetCurElem
    \/ TapeNext

SpecTape == InitTape /\ [][NextTape]_vars

----------------------------------------------------------------------------
Next ==
    \/ LoadProgram
    \/ Halt
    \/ ShiftRight
    \/ ShiftLeft
    \/ Increment
    \/ Decrement
    \/ CurrentByteOut
    \/ ReadByteAndStore
    \/ LeftBracketEnter
    \/ LeftBracketSkip
    \/ ScanStep
    \/ RightBracket
    \/ Advance

Spec == Init /\ [][Next]_vars

\* the interpreter is one thread that keeps running until it halts or raises
FairSpec == Spec /\ WF_vars(Next)

----------------------------------------------------------------------------
(* One machine used twice: load_program, start_program, load_program,      *)
(* start_program.  The text of the first load is one of FirstTexts, the    *)
(* text of the second one of SecondTexts; the texts of the second load     *)
(* begin with a character that is no command, so that the text loaded      *)
(* tells which of the two runs a state belongs to.                         *)

FirstTexts ==
    { <<"+", "+", "+">>,
      <<"+", ">", "+", "[">>,
      <<",", "[", ".", "-", "]">>,
      <<"-", "<">>,
      <<"[", "-", "]">>,
      <<">", ">", "+">> }

SecondTexts ==
    { <<"x">>,
      <<"x", ".">>,
      <<"x", "]">>,
      <<"x", "<", ".">>,
      <<"x", "[", ".", "-", "]">>,
      <<"x", ",", ".">>,
      <<"x", "+", "[">> }

\* start_program has returned, or an exception has left it
RunEnded == pc \in {"halted", "raised"}

\* Reload building a new machine: tapes and stack as after __init__
Reload_resetting ==
    /\ UNCHANGED harness
    /\ RunEnded /\ source \in FirstTexts
    /\ \E text \in SecondTexts :
          /\ source' = text
          /\ program' = load_program(Tape(initial_tape_len), text)
    /\ memory' = Tape(initial_tape_len)
    /\ bracket_stack' = << >>
    /\ pc' = "fetch"
    /\ exc' = NoExc
    /\ ir' = -1
    /\ UNCHANGED <<nested_brackets, stdin, stdin_pos, stdout>>

\* the second load_program, on the machine the first run has left; the
\* caller has dealt with an exception of the first run, and start_program
\* is called next
Reload ==
    /\ UNCHANGED harness
    /\ RunEnded /\ source \in FirstTexts
    /\ \E text \in SecondTexts :
          /\ source' = text
          /\ program' = load_program(program, text)
    /\ pc' = "fetch"
    /\ exc' = NoExc
    /\ ir' = -1
    /\ UNCHANGED <<memory, bracket_stack, nested_brackets, stdin, stdin_pos,
                   stdout>>

InitReload ==
    /\ source \in FirstTexts
    /\ stdin \in InputsUpTo(MaxInput)
    /\ Constructed
    /\ TapeConstructed({initial_tape_len})

NextReload == Next \/ Reload

SpecReload == InitReload /\ [][NextReload]_vars

----------------------------------------------------------------------------
(* Reference bracket matching, on the bytes of a tape's storage            *)

LBRACKET == 91

RBRACKET == 93

CountOf(S, b, lo, hi) ==
    Cardinality({k \in DOMAIN S.nz : lo <= k /\ k <= hi /\ S.nz[k] = b})

\* number of [ minus number of ] among positions lo..hi
Depth(S, lo, hi) == CountOf(S, LBRACKET, lo, hi) - CountOf(S, RBRACKET, lo, hi)

\* m is the ] that closes the [ at p
Closes(S, p, m) ==
    /\ Depth(S, p, m) = 0
    /\ \A k \in p..(m - 1) : Depth(S, p, k) > 0

HasMatchClose(S, p) == \E m \in (p + 1)..(S.len - 1) : Closes(S, p, m)

MatchClose(S, p) == CHOOSE m \in (p + 1)..(S.len - 1) : Closes(S, p, m)

\* the [ that the ] at q closes
MatchOpen(S, q) ==
    CHOOSE p \in 0..(q - 1) :
        /\ Depth(S, p, q) = 0
        /\ \A k \in (p + 1)..q : Depth(S, k, q) < 0

Balanced(S) ==
    /\ \A k \in 0..(S.len - 1) : Depth(S, 0, k) >= 0
    /\ Depth(S, 0, S.len - 1) = 0

\* the byte of the instruction last dispatched
Dispatched == getitem(program.storage, ir)

\* the current memory cell
Cell == cur_elem(memory)

\* the bytes load_program stored: the loaded program
Loaded == to_load(source)

----------------------------------------------------------------------------
(* C1: when a [ is dispatched on a zero cell and no matching ] follows it, *)
(* the forward scan fails with BrainfuckSyntaxError("Unmatched [") on      *)
(* reaching the end of the loaded program: a scan that reads the zero byte *)
(* past the program raises.                                                *)
C1_UnmatchedLeftRaises ==
    [][(pc = "scan" /\ cur_elem(program) = NUL)
          => (pc' = "raised" /\ exc' = UnmatchedLeft)]_vars

----------------------------------------------------------------------------
(* C2: in a bracket-balanced program, a [ at p dispatched on a zero cell   *)
(* starts a scan that stays inside the loop, dispatches nothing, leaves    *)
(* memory and the bracket stack as they were, ends with the cursor on the  *)
(* matching ] at m, and start_program then fetches at m + 1.               *)
C2_SkipResumesAfterMatch ==
    [][/\ (Dispatching("[") /\ Cell = 0 /\ Balanced(program.storage)) =>
              /\ pc' = "scan"
              /\ memory' = memory /\ bracket_stack' = bracket_stack
       /\ (pc = "scan" /\ Balanced(program.storage)) =>
              /\ ir < program.ptr
              /\ program.ptr <= MatchClose(program.storage, ir)
              /\ pc' \in {"scan", "advance"}
              /\ ir' = ir
              /\ memory' = memory /\ bracket_stack' = bracket_stack
              /\ pc' = "advance" =>
                    program'.ptr = MatchClose(program.storage, ir)
       /\ (pc = "advance" /\ Dispatched = LBRACKET /\ Cell = 0
              /\ Balanced(program.storage)) =>
              /\ pc' = "fetch"
              /\ program'.ptr = MatchClose(program.storage, ir) + 1
              /\ memory' = memory /\ bracket_stack' = bracket_stack
      ]_vars

\* a loop with a loop nested in its body was skipped: the next fetch is
\* just past its matching ]
C2_Witness ==
    /\ pc = "fetch" /\ ir >= 0
    /\ Dispatched = LBRACKET /\ Cell = 0
    /\ Balanced(program.storage)
    /\ program.ptr = MatchClose(program.storage, ir) + 1
    /\ \E k \in (ir + 1)..(program.ptr - 2) :
          getitem(program.storage, k) = RBRACKET
    /\ cur_elem(program) # NUL

----------------------------------------------------------------------------
(* C3: in a bracket-balanced program, a ] at q dispatched on a nonzero     *)
(* cell sets the program cursor to the [ that matches q.                   *)
C3_JumpToMatchingOpen ==
    [][(Dispatching("]") /\ Cell # 0 /\ Balanced(program.storage)) =>
          /\ pc' = "advance"
          /\ program'.ptr = MatchOpen(program.storage, program.ptr)
      ]_vars

\* an inner ] has jumped back to its own [, with an outer loop open
C3_Witness ==
    /\ pc = "advance"
    /\ Dispatched = RBRACKET /\ Cell # 0
    /\ Balanced(program.storage)
    /\ program.ptr = MatchOpen(program.storage, ir)
    /\ Len(bracket_stack) >= 2
    /\ program.ptr # bracket_stack[1]

----------------------------------------------------------------------------
(* C4: the program ,[.-] run on one input byte k and then end of data      *)
(* never raises, is never stuck before it halts, writes a prefix of        *)
(* k, k-1, ..., 1 at every point, and does halt, with exactly that output. *)

Countdown(k) == [i \in 1..k |-> k + 1 - i]

CopyRun == source = Copy /\ Len(stdin) = 1 /\ stdin[1] \in 0..255

CopyDone == CopyRun /\ pc = "halted" /\ stdout = Countdown(stdin[1])

C4_CopyLoopOutput ==
    /\ [](CopyRun =>
            /\ pc # "raised"
            /\ pc # "halted" => ENABLED Next
            /\ Len(stdout) <= stdin[1]
            /\ stdout = SubSeq(Countdown(stdin[1]), 1, Len(stdout))
            /\ pc = "halted" => stdout = Countdown(stdin[1]))
    /\ (CopyRun => <>CopyDone)

\* the run on byte 255 has halted after writing 255 bytes
C4_Witness ==
    /\ CopyRun /\ stdin[1] = 255
    /\ pc = "halted"
    /\ Len(stdout) = 255 /\ stdout[1] = 255 /\ stdout[255] = 1

----------------------------------------------------------------------------
(* C5: + turns a cell v into v + 1, and 255 into 0; - turns v into v - 1,  *)
(* and 0 into 255; no other cell changes; every stored byte is in 0..255;  *)
(* and in a program made of + and - only (after an optional leading ,)     *)
(* the cell holds (v + #plus - #minus) mod 256 after each instruction,     *)
(* v being the value the cell started with.                                *)

PLUS == 43

MINUS == 45

COMMA == 44

\* the cells other than the current one are the same in tapes t and u
SameElsewhere(t, u) ==
    /\ t.storage.len = u.storage.len
    /\ \A k \in (DOMAIN t.storage.nz \cup DOMAIN u.storage.nz) \ {t.ptr} :
          getitem(t.storage, k) = getitem(u.storage, k)

\* the loaded program is + and - only, after an optional leading ,
PlusMinusOnly ==
    /\ Loaded # << >>
    /\ Loaded[1] \in {PLUS, MINUS, COMMA}
    /\ \A k \in 2..Len(Loaded) : Loaded[k] \in {PLUS, MINUS}

\* the value the cell starts with: 0, or what the leading , stored
StartValue ==
    IF Loaded[1] = COMMA /\ stdin # << >> THEN stdin[1] % 256 ELSE 0

\* occurrences of byte b among the first n loaded instructions
Executed(b, n) == Cardinality({k \in 1..n : Loaded[k] = b})

NetIncrement ==
    (pc \in {"fetch", "halted"} /\ PlusMinusOnly
        /\ (Loaded[1] = COMMA => program.ptr >= 1)) =>
      /\ memory.ptr = 0
      /\ Cell = (StartValue + Executed(PLUS, program.ptr)
                  - Executed(MINUS, program.ptr)) % 256

C5_ByteWraparound ==
    [][/\ Dispatching("+") =>
             /\ cur_elem(memory') = IF Cell = 255 THEN 0 ELSE Cell + 1
             /\ memory'.ptr = memory.ptr /\ SameElsewhere(memory, memory')
       /\ Dispatching("-") =>
             /\ cur_elem(memory') = IF Cell = 0 THEN 255 ELSE Cell - 1
             /\ memory'.ptr = memory.ptr /\ SameElsewhere(memory, memory')
       /\ \A k \in DOMAIN memory'.storage.nz :
             memory'.storage.nz[k] \in 1..255
       /\ NetIncrement'
      ]_vars

\* a cell that started at 255 has been incremented to 0 and on to 2
C5_Witness ==
    /\ Loaded = <<COMMA, PLUS, PLUS, PLUS>> /\ stdin = <<255>>
    /\ pc = "halted" /\ Cell = 2

----------------------------------------------------------------------------
(* C6: a ] dispatched on an empty bracket stack raises                     *)
(* BrainfuckSyntaxError("Unmatched ]") whatever the current cell holds,    *)
(* leaving both tapes, the stack and the output as they were; and nothing  *)
(* runs after an exception.                                                *)
C6_UnmatchedRightRaises ==
    [][/\ pc # "raised"
       /\ (Dispatching("]") /\ bracket_stack = << >>) =>
             /\ pc' = "raised" /\ exc' = UnmatchedRight
             /\ program' = program /\ memory' = memory
             /\ bracket_stack' = bracket_stack /\ stdout' = stdout
      ]_vars

\* an unmatched ] has raised on a nonzero cell
C6_Witness ==
    /\ pc = "raised" /\ exc = UnmatchedRight
    /\ Dispatched = RBRACKET /\ program.ptr = ir
    /\ bracket_stack = << >>
    /\ Cell # 0

----------------------------------------------------------------------------
(* C7: both cursors are >= 0 in every state, and < dispatched at data      *)
(* cursor 0 raises IndexError with the memory tape left as it was.         *)
C7_CursorsNonNegative ==
    /\ [](memory.ptr >= 0 /\ program.ptr >= 0)
    /\ [][(Dispatching("<") /\ memory.ptr = 0) =>
             /\ pc' = "raised" /\ exc' = IndexError
             /\ memory' = memory]_vars

\* < has raised at data cursor 0, on a tape that holds a nonzero byte
C7_Witness ==
    /\ pc = "raised" /\ exc = IndexError
    /\ memory.ptr = 0
    /\ Cell # 0

----------------------------------------------------------------------------
(* C8 as stated: on a tape not written since it was constructed or loaded, *)
(* setting the cursor to any n >= 0 and reading cur_elem gives 0.          *)
C8_FreshTapeReadsZero ==
    ~tape_written =>
        \A n \in 0..(MaxTapePtr + 2) : cur_elem(ptr_set(tape, n)) = 0

\* what a tape holds at n when nothing was written since it was
\* constructed or loaded
FreshByte(n) ==
    IF tape_origin = "loaded" /\ n < Len(tape_data)
    THEN tape_data[n + 1]
    ELSE 0

(* C8, amended: on a tape not written since it was constructed, setting    *)
(* the cursor to any n >= 0 and reading cur_elem gives 0; on a tape not    *)
(* written since load(data) it gives data[n] for n < len(data) and 0 for   *)
(* n >= len(data).                                                         *)
C8_FreshTapeReadsData ==
    ~tape_written =>
        /\ cur_elem(tape) = FreshByte(tape.ptr)
        /\ \A n \in 0..(MaxTapePtr + 2) :
              cur_elem(ptr_set(tape, n)) = FreshByte(n)

\* a loaded tape with a nonzero byte whose cursor was set past the data,
\* which made the storage grow
C8_Witness ==
    /\ tape_origin = "loaded" /\ ~tape_written
    /\ tape_data = <<7, 7>>
    /\ tape.ptr = 3
    /\ tape.storage.len > 3

----------------------------------------------------------------------------
(* C9: load_program stores exactly the command characters of the text, in  *)
(* their order and nothing else (one zero byte for a text without          *)
(* commands), with the cursor at 0; and                                    *)
(* loading a text and loading that text with every other character         *)
(* stripped give the same program tape.                                    *)

IsCmd(c) == c \in {">", "<", "+", "-", ".", ",", "[", "]"}

Strip(text) == SelectSeq(text, IsCmd)

JustLoaded == pc = "fetch" /\ ir = -1

C9_LoadKeepsCommandsOnly ==
    /\ JustLoaded =>
          /\ program.ptr = 0
          /\ program.storage.len =
                IF Strip(source) = << >> THEN 1 ELSE Len(Strip(source))
          /\ \A k \in 0..(program.storage.len - 1) :
                getitem(program.storage, k) =
                    IF k < Len(Strip(source))
                    THEN ord(Strip(source)[k + 1])
                    ELSE 0
    /\ load_program(Tape(initial_tape_len), source)
           = load_program(Tape(initial_tape_len), Strip(source))

\* a text with commands before and after a character that is no command
\* has been loaded
C9_Witness ==
    /\ JustLoaded
    /\ Len(Strip(source)) >= 2 /\ Len(source) > Len(Strip(source))
    /\ ~IsCmd(source[2])
    /\ source[1] # source[3]

----------------------------------------------------------------------------
(* C10: , at end of data sets the current cell to 0; with a character of   *)
(* code b < 256 waiting it sets the cell to b (a character of a higher     *)
(* code is stored modulo 256); the handler returns normally, and no other  *)
(* cell, neither cursor, nor the bracket stack changes.                    *)
C10_ReadStoresByteOrZero ==
    [][Dispatching(",") =>
          /\ pc' = "advance"
          /\ cur_elem(memory') =
                IF stdin_pos >= Len(stdin) THEN 0
                ELSE IF stdin[stdin_pos + 1] < 256 THEN stdin[stdin_pos + 1]
                ELSE stdin[stdin_pos + 1] % 256
          /\ memory'.ptr = memory.ptr /\ SameElsewhere(memory, memory')
          /\ program' = program
          /\ bracket_stack' = bracket_stack
      ]_vars

\* , at end of data has zeroed a cell that + had made nonzero
C10_Witness ==
    /\ pc = "advance" /\ Dispatched = COMMA
    /\ ir >= 1 /\ getitem(program.storage, ir - 1) = PLUS
    /\ stdin_pos >= Len(stdin)
    /\ Cell = 0

----------------------------------------------------------------------------
(* C11: an error is raised only by the dispatch of the offending           *)
(* instruction: load_program never raises; a run is ended only by ] on an  *)
(* empty stack or < at data cursor 0, at the very step that dispatches it, *)
(* with the output as it was; every . dispatched before it has appended    *)
(* its byte to the output at its own step, so that where the instructions  *)
(* before the error are loop-free the output has one byte for each . among *)
(* them; and no step follows the error.                                    *)

DOT == 46

\* no [ or ] among the program positions lo..hi
LoopFree(lo, hi) ==
    /\ CountOf(program.storage, LBRACKET, lo, hi) = 0
    /\ CountOf(program.storage, RBRACKET, lo, hi) = 0

C11_ErrorsAtDispatchOnly ==
    [][/\ pc # "raised"
       /\ pc = "constructed" => (pc' = "fetch" /\ exc' = NoExc)
       /\ pc' = "raised" =>
             /\ \/ Dispatching("]") /\ bracket_stack = << >>
                      /\ exc' = UnmatchedRight
                \/ Dispatching("<") /\ memory.ptr = 0 /\ exc' = IndexError
             /\ ir' = program.ptr /\ program' = program
             /\ stdout' = stdout
             /\ LoopFree(0, program.ptr - 1) =>
                   Len(stdout) = CountOf(program.storage, DOT, 0,
                                         program.ptr - 1)
       /\ IF Dispatching(".")
          THEN stdout' = Append(stdout, Cell)
          ELSE stdout' = stdout
       /\ pc' # "raised" => exc' = NoExc
      ]_vars

\* an unmatched ] has ended a run after two . wrote different bytes, with
\* a third . left undispatched behind it
C11_Witness ==
    /\ pc = "raised" /\ exc = UnmatchedRight
    /\ Dispatched = RBRACKET /\ program.ptr = ir
    /\ stdout = <<1, 2>>
    /\ getitem(program.storage, ir + 1) = DOT

----------------------------------------------------------------------------
(* C12: in a bracket-balanced program, whenever start_program is about to  *)
(* fetch at program cursor c, the bracket stack holds exactly the          *)
(* positions of the [ before c whose matching ] is at or after c, in       *)
(* increasing order (outermost first), so its depth is the nesting level   *)
(* of c.                                                                   *)

\* the [ that enclose position c
Enclosing(S, c) ==
    {p \in DOMAIN S.nz :
        p < c /\ S.nz[p] = LBRACKET /\ MatchClose(S, p) >= c}

C12_StackIsEnclosingLoops ==
    (pc = "fetch" /\ Balanced(program.storage)) =>
        /\ Len(bracket_stack)
              = Cardinality(Enclosing(program.storage, program.ptr))
        /\ {bracket_stack[i] : i \in 1..Len(bracket_stack)}
              = Enclosing(program.storage, program.ptr)
        /\ \A i \in 1..(Len(bracket_stack) - 1) :
              bracket_stack[i] < bracket_stack[i + 1]

\* inside the second of two loops nested in an outer loop: two positions
\* on the stack, and the [ of the first inner loop, closed, not among them
C12_Witness ==
    /\ pc = "fetch" /\ Balanced(program.storage)
    /\ cur_elem(program) # NUL
    /\ Len(bracket_stack) = 2
    /\ \E p \in 0..(program.ptr - 1) :
          /\ getitem(program.storage, p) = LBRACKET
          /\ p > bracket_stack[1]
          /\ p # bracket_stack[2]

----------------------------------------------------------------------------
\* a ] has just jumped: it was dispatched on a nonzero cell and returned
Jumped == ir >= 0 /\ Dispatched = RBRACKET /\ Cell # 0

\* the top of the bracket stack
Top == bracket_stack[Len(bracket_stack)]

(* C13 as stated: a ] dispatched on a nonzero cell with a non-empty stack  *)
(* sets the program cursor to the top of the stack without popping, and    *)
(* the next instruction start_program dispatches is that [ itself, which   *)
(* pushes its position again.                                              *)
C13_JumpRedispatchesOpen ==
    [][/\ (Dispatching("]") /\ Cell # 0 /\ bracket_stack # << >>) =>
             /\ pc' = "advance"
             /\ program'.ptr = Top
             /\ bracket_stack' = bracket_stack
       /\ (pc = "advance" /\ Jumped) =>
             /\ pc' = "fetch"
             /\ program'.ptr = Top
             /\ cur_elem(program') = LBRACKET
       /\ (pc = "fetch" /\ Jumped) =>
             /\ Dispatching("[")
             /\ bracket_stack' = Append(bracket_stack, program.ptr)
      ]_vars

(* C13, amended: a ] dispatched on a nonzero cell with a non-empty stack   *)
(* sets the program cursor to the top of the stack, the position of a [,   *)
(* without popping and without touching memory; start_program's advance    *)
(* then moves the cursor one past that [, so the next fetch is at the      *)
(* first position of the loop body: the [ is not dispatched again and      *)
(* nothing is pushed.                                                      *)
C13_JumpResumesInBody ==
    [][/\ (Dispatching("]") /\ Cell # 0 /\ bracket_stack # << >>) =>
             /\ pc' = "advance"
             /\ program'.ptr = Top
             /\ getitem(program.storage, Top) = LBRACKET
             /\ bracket_stack' = bracket_stack
             /\ memory' = memory
       /\ (pc = "advance" /\ Jumped) =>
             /\ pc' = "fetch"
             /\ program.ptr = Top
             /\ program'.ptr = Top + 1
             /\ ir' = ir
             /\ bracket_stack' = bracket_stack
      ]_vars

\* after a jump the fetch is at the first instruction of the loop body,
\* which is no [, and the stack still holds the loop's [ once
C13_Witness ==
    /\ pc = "fetch" /\ Jumped
    /\ bracket_stack # << >> /\ program.ptr = Top + 1
    /\ cur_elem(program) \notin {NUL, LBRACKET}
    /\ Cardinality({i \in 1..Len(bracket_stack) : bracket_stack[i] = Top}) = 1

----------------------------------------------------------------------------
(* C14: a loaded program of L bytes without [ and ] terminates: the        *)
(* instructions are dispatched at positions 0, 1, ... in order, each once  *)
(* (every dispatch is at the position after the last one), and the run     *)
(* stops either normally with the program cursor at L after the dispatch   *)
(* of position L - 1, or earlier with IndexError; it never stops normally  *)
(* below L.                                                                *)

NoLoops == \A k \in 1..Len(Loaded) : Loaded[k] \notin {LBRACKET, RBRACKET}

Stopped == pc \in {"halted", "raised"}

C14_StraightLineTerminates ==
    /\ []((NoLoops /\ pc # "constructed") =>
            /\ pc \in {"fetch", "advance", "halted", "raised"}
            /\ ir < Len(Loaded)
            /\ pc = "fetch" => program.ptr = ir + 1
            /\ pc = "advance" => program.ptr = ir
            /\ pc = "halted" =>
                  /\ program.ptr = Len(Loaded)
                  /\ ir = Len(Loaded) - 1
                  /\ exc = NoExc
            /\ pc = "raised" =>
                  /\ exc = IndexError
                  /\ program.ptr = ir)
    /\ [][(NoLoops /\ pc = "fetch" /\ pc' # "halted") =>
              (ir' = ir + 1 /\ ir' = program.ptr)]_vars
    /\ (NoLoops => <>Stopped)

\* a program of four instructions without loops has stopped normally
\* after reading and writing
C14_Witness ==
    /\ NoLoops /\ Len(Loaded) = 4
    /\ pc = "halted" /\ program.ptr = 4
    /\ Len(stdout) = 2 /\ stdin_pos = 1

----------------------------------------------------------------------------
(* C15: the cursor of each tape of the machine is an index of its storage, *)
(* 0 <= cursor < len(storage), in every state: after construction, after   *)
(* load_program (of an empty program too), after every advance, scan step  *)
(* and dispatch, and after a cursor assignment that was rejected with      *)
(* IndexError.                                                             *)

ValidCursor(t) == 0 <= t.ptr /\ t.ptr < t.storage.len

C15_CursorIsAnIndex ==
    /\ ValidCursor(memory)
    /\ ValidCursor(program)
    /\ (JustLoaded /\ Loaded = << >>) => program.storage.len = 1
    /\ (pc = "raised" /\ exc = IndexError) => memory.ptr = 0

\* the data cursor had moved right and come back to 0 when a further <
\* was rejected; the program cursor stands on the last stored byte
C15_Witness ==
    /\ pc = "raised" /\ exc = IndexError
    /\ program.ptr = program.storage.len - 1
    /\ ir >= 2
    /\ getitem(program.storage, 0) = ord(">")

----------------------------------------------------------------------------
(* C16: once loaded, the bytes of the program tape never change: in every  *)
(* state after load_program, positions 0..L-1 hold the L loaded bytes and  *)
(* every further position of the storage holds 0; a step changes at most   *)
(* the program cursor and the length, which never decreases.               *)

ProgramBytesAsLoaded ==
    /\ program.storage.len >= Len(Loaded)
    /\ \A k \in 0..(program.storage.len - 1) :
          getitem(program.storage, k) =
              IF k < Len(Loaded) THEN Loaded[k + 1] ELSE 0
    /\ DOMAIN program.storage.nz \subseteq 0..(Len(Loaded) - 1)

C16_ProgramBytesFrozen ==
    /\ [](pc # "constructed" => ProgramBytesAsLoaded)
    /\ [][pc # "constructed" =>
             /\ program'.storage.len >= program.storage.len
             /\ program'.storage.nz = program.storage.nz]_vars

\* the copy loop has run its body, been jumped back into and left, and the
\* storage has grown past the five loaded bytes
C16_Witness ==
    /\ pc = "halted" /\ Loaded = to_load(Copy)
    /\ program.storage.len > Len(Loaded)
    /\ Len(stdout) >= 2
    /\ ProgramBytesAsLoaded

----------------------------------------------------------------------------
(* C17: assigning a tape's cursor a value n >= len(storage) grows the      *)
(* storage until len > n, each growth step taking the length l to          *)
(* 2 * l + 1 (at least double), with every byte stored before kept and     *)
(* every added byte 0; an assignment of n < len leaves the storage as it   *)
(* was; and no step of a run makes the memory tape shorter (nor the        *)
(* program tape, once loaded).                                             *)

\* the length the storage must have after the cursor is set to n when
\* every growth step takes l to 2 * l + 1
RECURSIVE GrownLen(_, _)
GrownLen(l, n) == IF l <= n THEN GrownLen(2 * l + 1, n) ELSE l

\* cursor values tried on a tape of length l: the last index, the first
\* values that need one, two and three growth steps, and the last values
\* that need one and two
CursorsTried(l) ==
    {0, l - 1, l, l + 1, 2 * l, 2 * l + 1, 4 * l + 2, 4 * l + 3}

GrowsByDoubling(t) ==
    \A n \in CursorsTried(t.storage.len) :
        LET u == ptr_set(t, n)
        IN  /\ u.ptr = n
            /\ u.storage.len > n
            /\ u.storage.len = GrownLen(t.storage.len, n)
            /\ n >= t.storage.len => u.storage.len >= 2 * t.storage.len
            /\ u.storage.nz = t.storage.nz

C17_GrowthDoublesAndKeeps ==
    /\ [](GrowsByDoubling(memory) /\ GrowsByDoubling(program))
    /\ [][/\ memory'.storage.len >= memory.storage.len
          /\ pc # "constructed" =>
                /\ program'.storage.len >= program.storage.len
                /\ program'.storage.len \in
                      {program.storage.len, 2 * program.storage.len + 1}
         ]_vars

\* the storage of a program of three bytes has grown twice, to 7 and to
\* 15 bytes, as the scan moved the cursor on
C17_Witness ==
    /\ pc = "scan" /\ Len(Loaded) = 3
    /\ program.storage.len = 15
    /\ program.ptr >= 7
    /\ DOMAIN program.storage.nz = 0..2

----------------------------------------------------------------------------
(* C18: a [ without a matching ] that is dispatched on a nonzero cell is   *)
(* not reported: the handler pushes its position and returns normally,     *)
(* the next fetch is at the following position, the position stays on the  *)
(* stack for the rest of the run, and when the loop test of start_program  *)
(* reads the zero byte the run ends normally, without an exception and     *)
(* with the stack as it is.                                                *)

\* position p holds a [ that no ] closes
UnmatchedOpen(p) ==
    /\ getitem(program.storage, p) = LBRACKET
    /\ ~HasMatchClose(program.storage, p)

C18_UnmatchedOpenUnreported ==
    [][/\ (Dispatching("[") /\ Cell # 0 /\ UnmatchedOpen(program.ptr)) =>
             /\ pc' = "advance" /\ exc' = NoExc
             /\ bracket_stack' = Append(bracket_stack, program.ptr)
             /\ program' = program /\ memory' = memory
             /\ stdout' = stdout
       /\ (pc = "advance" /\ Dispatched = LBRACKET /\ Cell # 0) =>
             /\ pc' = "fetch"
             /\ program'.ptr = ir + 1
             /\ bracket_stack' = bracket_stack
       /\ \A i \in 1..Len(bracket_stack) :
             UnmatchedOpen(bracket_stack[i]) =>
                 /\ i <= Len(bracket_stack')
                 /\ bracket_stack'[i] = bracket_stack[i]
       /\ (pc = "fetch" /\ cur_elem(program) = NUL) =>
             /\ pc' = "halted" /\ exc' = NoExc
             /\ bracket_stack' = bracket_stack
      ]_vars

\* a run has ended normally with an unclosed [ on the stack, after a loop
\* nested behind it was entered and left
C18_Witness ==
    /\ pc = "halted" /\ exc = NoExc
    /\ Len(bracket_stack) = 1
    /\ UnmatchedOpen(bracket_stack[1])
    /\ Dispatched = RBRACKET
    /\ ir > bracket_stack[1] + 1

----------------------------------------------------------------------------
(* C19: load_program replaces the storage of the program tape and sets the *)
(* program cursor to 0, and changes nothing else: the program tape after   *)
(* it is the one a fresh tape would get from the same text, whatever the   *)
(* tape held before, and the memory tape with its cursor, the bracket      *)
(* stack and the input and output are as they were; so the second run of   *)
(* load, run, load, run starts from the memory, data cursor and stack the  *)
(* first run left.                                                         *)

\* the step is a load_program: the first one, or the one after a run
Loading == pc = "constructed" \/ RunEnded

C19_LoadKeepsMemoryAndStack ==
    [][(Loading /\ pc' = "fetch") =>
          /\ program' = load_program(Tape(initial_tape_len), source')
          /\ program'.ptr = 0
          /\ memory' = memory
          /\ bracket_stack' = bracket_stack
          /\ stdin_pos' = stdin_pos /\ stdout' = stdout
      ]_vars

\* the second run, of a text that only moves left and writes, has written
\* the byte the first run stored, from the cell the first run had left the
\* cursor next to, and it ends with the [ of the first run on the stack
C19_Witness ==
    /\ source = <<"x", "<", ".">>
    /\ pc = "halted"
    /\ stdout = <<1>>
    /\ memory.ptr = 0
    /\ bracket_stack = <<3>>

============================================================================
